---- MODULE Spec2Model ----
(***************************************************************************)
(* Stock Market Analyzer (streamlit_app.py): one run of the script, from   *)
(* the raw widget inputs to the messages and tables it presents.           *)
(*                                                                         *)
(* Text is a sequence of one-character strings.  A price cell and a share  *)
(* count are optional numbers: <<>> is the absent value (NaN / None) and   *)
(* <<v>> the number v.  A table (DataFrame) is a function from column      *)
(* names to series; a series is a sequence of cells, one per date.         *)
(***************************************************************************)
EXTENDS Integers, Sequences, FiniteSets, TLC

VARIABLES
    stocks_input,        \* text typed in the symbols box (line 17)
    start_date,          \* date widgets (lines 26, 27), as ordinals
    end_date,
    world,               \* which responses the collaborators may give in this run
    pc,                  \* position of the script
    stocks,              \* normalized symbol list (line 21)
    data,                \* result of yf.download (line 37)
    idx,                 \* position of the loop of line 50 in stocks
    stock_df,            \* the current symbol's table
    outstanding_shares,  \* share count of the current symbol (lines 70, 75)
    stock_data,          \* dict symbol -> table, in insertion order (line 49)
    top_movers_data,     \* records of line 98
    top_gainers,         \* line 110
    top_losers,          \* line 113
    out,                 \* everything handed to the presentation surface, in order
    fetch_calls,         \* number of calls of yf.download
    lookups              \* log of the calls of yf.Ticker(stock).info

vars == <<stocks_input, start_date, end_date, world, pc, stocks, data, idx,
          stock_df, outstanding_shares, stock_data, top_movers_data,
          top_gainers, top_losers, out, fetch_calls, lookups>>

(***************************************************************************)
(* Bounds of the exploration.                                              *)
(***************************************************************************)
MaxLen == 4      \* longest raw text explored by the normalizer specification
MaxDate == 1     \* dates are the ordinals 0..MaxDate
MaxRows == 3     \* most rows (trading days) a fetch returns

(***************************************************************************)
(* Optional numbers.                                                       *)
(***************************************************************************)
NaN == <<>>
None == <<>>
Num(v) == <<v>>
IsNum(c) == c # <<>>
Val(c) == c[1]

Min2(a, b) == IF a <= b THEN a ELSE b
Range(s) == {s[i] : i \in DOMAIN s}

(***************************************************************************)
(* Text helpers: str.split(","), str.strip(), str.upper()  (line 21).      *)
(***************************************************************************)
Whitespace == {" "}
LowerCase == <<"a", "b", "c", "d", "e", "f", "g">>
UpperCase == <<"A", "B", "C", "D", "E", "F", "G">>

UpperChar(c) ==
    IF \E i \in DOMAIN LowerCase : LowerCase[i] = c
    THEN UpperCase[CHOOSE i \in DOMAIN LowerCase : LowerCase[i] = c]
    ELSE c

upper(s) == [i \in 1..Len(s) |-> UpperChar(s[i])]

RECURSIVE lstrip(_)
lstrip(s) == IF s # <<>> /\ Head(s) \in Whitespace THEN lstrip(Tail(s)) ELSE s

RECURSIVE rstrip(_)
rstrip(s) ==
    IF s # <<>> /\ s[Len(s)] \in Whitespace
    THEN rstrip(SubSeq(s, 1, Len(s) - 1))
    ELSE s

\* strip() that forgets the trailing side
StripLeftOnly(s) == lstrip(s)

strip(s) == rstrip(lstrip(s))

RECURSIVE split(_, _)
split(s, sep) ==
    IF \E k \in 1..Len(s) : s[k] = sep
    THEN LET k == CHOOSE k \in 1..Len(s) :
                      s[k] = sep /\ \A j \in 1..(k - 1) : s[j] # sep
         IN  <<SubSeq(s, 1, k - 1)>> \o split(SubSeq(s, k + 1, Len(s)), sep)
    ELSE <<s>>

\* line 21: [stock.strip().upper() for stock in stocks_input.split(",")]
Normalize(raw) ==
    LET tokens == split(raw, ",")
    IN  [i \in 1..Len(tokens) |-> upper(strip(tokens[i]))]

\* the comparison with equal dates let through
DateRangeInvalidStrict(s, e) == s > e

\* line 31: start_date >= end_date
DateRangeInvalid(s, e) == s >= e

\* line 35: `if stocks:` -- a list is true when it is not empty
Truthy(list) == Len(list) > 0

(***************************************************************************)
(* Messages and tables handed to the presentation surface.                 *)
(***************************************************************************)
DateError == [kind |-> "error", text |-> "End date must fall after start date"]
EmptyWarning == [kind |-> "warning", text |-> "No data found"]
EnterSymbols == [kind |-> "warning", text |-> "Please enter stock symbols"]
GenericError == [kind |-> "error", text |-> "An error occurred"]
FallbackNotice(stock) ==
    [kind |-> "warning", text |-> "Adjusted Close not found", stock |-> stock]
SharesNotice(stock) ==
    [kind |-> "warning", text |-> "Could not fetch outstanding shares", stock |-> stock]
Header(t) == [kind |-> "header", text |-> t]
Subheader(t, stock) == [kind |-> "subheader", text |-> t, stock |-> stock]
ChangeTable(stock, series) ==
    [kind |-> "dataframe", text |-> "Market Cap Change", stock |-> stock, body |-> series]
MoversTable(t, recs) == [kind |-> "dataframe", text |-> t, body |-> recs]

(***************************************************************************)
(* The collaborators (yfinance).  `world` names the set of responses they  *)
(* may give in a run:                                                      *)
(*   "full"  every column layout, absent cells, every kind of share value  *)
(*   "std"   two column layouts, a missing symbol, a null share value      *)
(*   "slim"  well-formed close-only tables, lookups that fail or succeed   *)
(***************************************************************************)
RowsOf(w) == IF w = "slim" THEN {0, MaxRows} ELSE 0..MaxRows

CellsOf(w) == IF w = "full" THEN {NaN, Num(1), Num(2)} ELSE {Num(1), Num(2)}

\* a series that rises once, falls once, or stays flat over r rows
Ramp(r, from, to) == [t \in 1..r |-> Num(IF t = 1 THEN from ELSE to)]

SeriesOf(w, r) ==
    CASE w = "full" -> [1..r -> CellsOf(w)]
      [] w = "std"  -> {Ramp(r, 1, 2), Ramp(r, 2, 1)}
      [] OTHER      -> {Ramp(r, 1, 2), Ramp(r, 2, 1)}

ColumnSetsOf(w) ==
    CASE w = "full" -> {{"Adj Close", "Close"}, {"Close"}, {"Open"}}
      [] w = "std"  -> {{"Adj Close", "Close"}, {"Close"}, {"Open"}}
      [] OTHER      -> {{"Close"}}

\* values info["sharesOutstanding"] may hold
SharesOf(w) ==
    CASE w = "full" -> {None, Num(-1), Num(0), Num(2)}
      [] w = "std"  -> {None, Num(2)}
      [] OTHER      -> {Num(2)}

MayOmitSymbols(w) == w = "std"

\* "std" keeps the adjusted series one fixed series away from the close
TablesOf(w, r) ==
    IF w = "std"
    THEN {[c \in cs |-> IF c = "Adj Close" THEN Ramp(r, 1, 1) ELSE s] :
             cs \in ColumnSetsOf(w), s \in SeriesOf(w, r)}
    ELSE UNION {[cs -> SeriesOf(w, r)] : cs \in ColumnSetsOf(w)}

EmptyData == [shape |-> "flat", rows |-> 0, tab |-> <<>>]

\* before the fetch there is no table at all
NoData == [shape |-> "unset", rows |-> 0, tab |-> <<>>]

\* yf.download(stocks, ...): the tables it may return for the symbols asked
FetchResults(w, list) ==
    LET asked == Range(list)
        shapes == IF Len(list) = 1 THEN {"flat"}
                  ELSE IF Cardinality(asked) = 1 THEN {"flat", "multi"}
                  ELSE {"multi"}
        doms(sh) == IF sh = "multi" /\ MayOmitSymbols(w)
                    THEN SUBSET asked \ {{}}
                    ELSE {asked}
    IN  (IF 0 \in RowsOf(w) THEN {EmptyData} ELSE {})
        \cup UNION {UNION {UNION {
                {[shape |-> sh, rows |-> r, tab |-> t] : t \in [d -> TablesOf(w, r)]}
                : d \in doms(sh)} : sh \in shapes} : r \in RowsOf(w) \ {0}}

\* data.empty (line 41)
IsEmpty(d) == d.rows = 0 \/ DOMAIN d.tab = {}

(***************************************************************************)
(* Per-symbol extractor (lines 52-56).                                     *)
(***************************************************************************)
\* data.loc[:, (slice(None), stock)] needs two-level columns holding stock
ExtractRaises(d, list, stock) ==
    Len(list) > 1 /\ (d.shape = "flat" \/ stock \notin DOMAIN d.tab)

Extract(d, list, stock) ==
    IF Len(list) > 1
    THEN d.tab[stock]
    ELSE d.tab[CHOOSE s \in DOMAIN d.tab : TRUE]

SetCol(df, name, series) ==
    [c \in DOMAIN df \cup {name} |-> IF c = name THEN series ELSE df[c]]

(***************************************************************************)
(* Price field resolver (lines 60-64).                                     *)
(***************************************************************************)
NeedsFallback(df) == "Adj Close" \notin DOMAIN df

\* stock_df["Close"] raises KeyError when the column is missing
FallbackRaises(df) == NeedsFallback(df) /\ "Close" \notin DOMAIN df

\* the fallback applied to every table
ResolvePriceAlwaysClose(df) == SetCol(df, "Adj Close", df["Close"])

ResolvePrice(df) ==
    IF NeedsFallback(df) THEN SetCol(df, "Adj Close", df["Close"]) ELSE df

(***************************************************************************)
(* Shares resolver (lines 68-75) and market cap transformer (lines 78-83). *)
(***************************************************************************)
DefaultShares == 1000000000

\* a handler that substitutes nothing
SharesOnFailureNone == None

\* line 75: the count substituted when the lookup raises
SharesOnFailure == Num(DefaultShares)

\* Series * scalar; an absent cell stays absent
market_cap(price, shares) ==
    [t \in 1..Len(price) |->
        IF IsNum(price[t]) THEN Num(Val(price[t]) * shares) ELSE NaN]

\* a difference that starts at zero
DiffZeroFirst(series) ==
    [t \in 1..Len(series) |->
        IF t = 1 THEN Num(0)
        ELSE IF IsNum(series[t]) /\ IsNum(series[t - 1])
             THEN Num(Val(series[t]) - Val(series[t - 1]))
             ELSE NaN]

\* Series.diff(): first row absent, absent operands give absent
diff(series) ==
    [t \in 1..Len(series) |->
        IF t > 1 /\ IsNum(series[t]) /\ IsNum(series[t - 1])
        THEN Num(Val(series[t]) - Val(series[t - 1]))
        ELSE NaN]

\* Series * None raises TypeError
TransformRaises(shares) == shares = None

Transform(df, shares) ==
    LET cap == market_cap(df["Adj Close"], Val(shares))
    IN  SetCol(SetCol(df, "Market Cap", cap), "Market Cap Change", diff(cap))

\* a list of tables instead of a dict: one entry per occurrence
DictAppend(d, k, v) == Append(d, [key |-> k, val |-> v])

\* stock_data[stock] = stock_df (line 86): a dict keeps one entry per key
DictSet(d, k, v) ==
    IF \E i \in DOMAIN d : d[i].key = k
    THEN [i \in DOMAIN d |-> IF d[i].key = k THEN [key |-> k, val |-> v] ELSE d[i]]
    ELSE Append(d, [key |-> k, val |-> v])

(***************************************************************************)
(* Top-movers aggregator (lines 98-115).                                   *)
(***************************************************************************)
\* Series.sum(): absent cells are skipped, an all-absent series sums to 0
RECURSIVE sum(_)
sum(series) ==
    IF series = <<>> THEN 0
    ELSE (IF IsNum(Head(series)) THEN Val(Head(series)) ELSE 0) + sum(Tail(series))

MoverRecord(entry) ==
    [Stock |-> entry.key, Total |-> sum(entry.val["Market Cap Change"])]

Movers(d) == [i \in 1..Len(d) |-> MoverRecord(d[i])]

\* r goes before e in the requested order
Before(r, e, ascending) ==
    IF ascending THEN r.Total < e.Total ELSE r.Total > e.Total

\* insert r after every record that does not come after it.  Ties keep input
\* order here; pandas leaves their order open and no property below reads it.
Insert(sorted, r, ascending) ==
    LET k == Cardinality({i \in DOMAIN sorted : ~Before(r, sorted[i], ascending)})
    IN  SubSeq(sorted, 1, k) \o <<r>> \o SubSeq(sorted, k + 1, Len(sorted))

RECURSIVE sort_values(_, _)
sort_values(recs, ascending) ==
    IF recs = <<>> THEN <<>>
    ELSE Insert(sort_values(SubSeq(recs, 1, Len(recs) - 1), ascending),
                recs[Len(recs)], ascending)

TopN == 5

head(s, n) == SubSeq(s, 1, Min2(n, Len(s)))

\* the first records in input order, unsorted
TopGainersUnsorted(recs) == head(recs, TopN)

TopGainers(recs) == head(sort_values(recs, FALSE), TopN)
TopLosers(recs) == head(sort_values(recs, TRUE), TopN)

\* lines 89-92: one subheader and one change table per dict entry
RECURSIVE ChangeTables(_)
ChangeTables(d) ==
    IF d = <<>> THEN <<>>
    ELSE <<Subheader("Daily Market Value Change", Head(d).key),
           ChangeTable(Head(d).key, Head(d).val["Market Cap Change"])>>
         \o ChangeTables(Tail(d))

(***************************************************************************)
(* Inputs.                                                                 *)
(***************************************************************************)
Alphabet == {"a", "B", " ", ","}
Strings(n) == UNION {[1..k -> Alphabet] : k \in 0..n}
Dates == 0..MaxDate

SingleInputs == {<<"a">>, <<" ", "a", " ">>}
DateInputs == {<<>>, <<"a">>}
PairInputs == {<<"a", ",", "a">>, <<"a", ",", "b">>, <<"a", ",", " ", "b", ",", "a">>,
               <<"a", ",">>}
WideInputs == {<<"a", ",", "b", ",", "c", ",", "d", ",", "e">>,
               <<"a", ",", "b", ",", "c", ",", "d", ",", "e", ",", "f">>,
               <<"a", ",", "b", ",", "c", ",", "a", ",", "d", ",", "e", ",", "f">>}

Start(inputs, dates, w) ==
    /\ stocks_input \in inputs
    /\ \E d \in dates : start_date = d[1] /\ end_date = d[2]
    /\ world = w
    /\ pc = "start"
    /\ stocks = <<>>
    /\ data = NoData
    /\ idx = 0
    /\ stock_df = <<>>
    /\ outstanding_shares = None
    /\ stock_data = <<>>
    /\ top_movers_data = <<>>
    /\ top_gainers = <<>>
    /\ top_losers = <<>>
    /\ out = <<>>
    /\ fetch_calls = 0
    /\ lookups = <<>>

Init ==
    \/ Start(DateInputs, Dates \X Dates, "slim")
    \/ Start(SingleInputs, {<<0, MaxDate>>}, "full")
    \/ Start(PairInputs, {<<0, MaxDate>>}, "std")
    \/ Start(WideInputs, {<<0, MaxDate>>}, "slim")

InitNormalizer == Start(Strings(MaxLen), Dates \X Dates, "slim")

(***************************************************************************)
(* The script.                                                             *)
(***************************************************************************)
\* an outer handler that shows nothing
RaiseSwallowed(sofar) ==
    /\ out' = sofar
    /\ pc' = "done"

\* lines 122-123: an exception reaches the outer handler; sofar is what was shown
Raise(sofar) ==
    /\ out' = Append(sofar, GenericError)
    /\ pc' = "done"

\* lines 21-35 and 124-125: normalize, validate the dates, test the list
Run ==
    /\ pc = "start"
    /\ stocks' = Normalize(stocks_input)
    /\ IF DateRangeInvalid(start_date, end_date)
       THEN out' = Append(out, DateError) /\ pc' = "done"
       ELSE IF Truthy(stocks')
            THEN out' = out /\ pc' = "fetch"
            ELSE out' = Append(out, EnterSymbols) /\ pc' = "done"
    /\ UNCHANGED <<stocks_input, start_date, end_date, world, data, idx, stock_df,
                   outstanding_shares, stock_data, top_movers_data, top_gainers,
                   top_losers, fetch_calls, lookups>>

\* lines 37-49: the fetch returns a table
Fetch ==
    /\ pc = "fetch"
    /\ fetch_calls' = fetch_calls + 1
    /\ \E d \in FetchResults(world, stocks) :
          /\ data' = d
          /\ IF IsEmpty(d)
             THEN out' = Append(out, EmptyWarning) /\ pc' = "done" /\ idx' = idx
             ELSE out' = out /\ pc' = "extract" /\ idx' = 1
    /\ stock_data' = <<>>
    /\ UNCHANGED <<stocks_input, start_date, end_date, world, stocks, stock_df,
                   outstanding_shares, top_movers_data, top_gainers, top_losers,
                   lookups>>

\* lines 37, 122-123: the fetch raises
FetchFails ==
    /\ pc = "fetch"
    /\ fetch_calls' = fetch_calls + 1
    /\ Raise(out)
    /\ UNCHANGED <<stocks_input, start_date, end_date, world, stocks, data, idx,
                   stock_df, outstanding_shares, stock_data, top_movers_data,
                   top_gainers, top_losers, lookups>>

\* lines 50-64: extract the current symbol's table and resolve its price field
ExtractStock ==
    /\ pc = "extract"
    /\ LET stock == stocks[idx]
       IN  IF ExtractRaises(data, stocks, stock)
           THEN Raise(out) /\ stock_df' = stock_df
           ELSE LET df == Extract(data, stocks, stock)
                    noted == IF NeedsFallback(df)
                             THEN Append(out, FallbackNotice(stock))
                             ELSE out
                IN  IF FallbackRaises(df)
                    THEN Raise(noted) /\ stock_df' = df
                    ELSE /\ out' = noted
                         /\ pc' = "shares"
                         /\ stock_df' = ResolvePrice(df)
    /\ UNCHANGED <<stocks_input, start_date, end_date, world, stocks, data, idx,
                   outstanding_shares, stock_data, top_movers_data, top_gainers,
                   top_losers, fetch_calls, lookups>>

\* lines 77-86: market cap, its change, store; or TypeError on a null count
TransformAndStore(shares, sofar) ==
    IF TransformRaises(shares)
    THEN Raise(sofar) /\ UNCHANGED <<stock_df, stock_data, idx>>
    ELSE /\ out' = sofar
         /\ stock_df' = Transform(stock_df, shares)
         /\ stock_data' = DictSet(stock_data, stocks[idx], stock_df')
         /\ idx' = idx + 1
         /\ pc' = IF idx = Len(stocks) THEN "display" ELSE "extract"

\* lines 68-70, 77-86: the lookup returns a value
LookupShares ==
    /\ pc = "shares"
    /\ \E v \in SharesOf(world) :
          /\ outstanding_shares' = v
          /\ lookups' = Append(lookups, [stock |-> stocks[idx], raised |-> FALSE,
                                         value |-> v])
          /\ TransformAndStore(v, out)
    /\ UNCHANGED <<stocks_input, start_date, end_date, world, stocks, data,
                   top_movers_data, top_gainers, top_losers, fetch_calls>>

\* lines 68-75, 77-86: the lookup raises (no such field, network error, ...)
LookupFails ==
    /\ pc = "shares"
    /\ outstanding_shares' = SharesOnFailure
    /\ lookups' = Append(lookups, [stock |-> stocks[idx], raised |-> TRUE,
                                   value |-> None])
    /\ TransformAndStore(outstanding_shares', Append(out, SharesNotice(stocks[idx])))
    /\ UNCHANGED <<stocks_input, start_date, end_date, world, stocks, data,
                   top_movers_data, top_gainers, top_losers, fetch_calls>>

\* lines 88-120: per-symbol change tables, then the two leaderboards
Display ==
    /\ pc = "display"
    /\ top_movers_data' = Movers(stock_data)
    /\ top_gainers' = TopGainers(top_movers_data')
    /\ top_losers' = TopLosers(top_movers_data')
    /\ out' = out \o <<Header("Market Value Changes")>> \o ChangeTables(stock_data)
                  \o <<Header("Top Movers During the Period"),
                       Subheader("Top Gainers", <<>>),
                       MoversTable("Top Gainers", top_gainers'),
                       Subheader("Top Losers", <<>>),
                       MoversTable("Top Losers", top_losers')>>
    /\ pc' = "done"
    /\ UNCHANGED <<stocks_input, start_date, end_date, world, stocks, data, idx,
                   stock_df, outstanding_shares, stock_data, fetch_calls, lookups>>

Next ==
    \/ Run
    \/ Fetch
    \/ FetchFails
    \/ ExtractStock
    \/ LookupShares
    \/ LookupFails
    \/ Display

Spec == Init /\ [][Next]_vars

\* the normalizer and the date check alone, over every short raw text
SpecNormalizer == InitNormalizer /\ [][Run]_vars

(***************************************************************************)
(* Vocabulary of the properties.                                           *)
(***************************************************************************)
Shown(x) == \E i \in DOMAIN out : out[i] = x
CountOf(s, x) == Cardinality({i \in DOMAIN s : s[i] = x})
TablesShown == {i \in DOMAIN out : out[i].kind = "dataframe"}
ResultsShown ==
    \E i \in DOMAIN out : out[i].kind = "dataframe" /\ out[i].text = "Top Losers"
Occurrences(list, s) == {i \in DOMAIN list : list[i] = s}

\* the table the fetch holds for symbol s
Source(s) == Extract(data, stocks, s)
\* the table stored for key k
Entry(k) == stock_data[CHOOSE n \in DOMAIN stock_data : stock_data[n].key = k].val
\* iteration i of the loop has stored its table
Stored(i) == i < idx
\* iteration i is the latest stored one for its symbol
LastStored(i) ==
    Stored(i) /\ \A j \in (i + 1)..Len(lookups) : Stored(j) => stocks[j] # stocks[i]
\* the share count iteration i worked with
UsedShares(i) ==
    IF lookups[i].raised THEN DefaultShares ELSE Val(lookups[i].value)

\* C1: the date error is reported exactly when start >= end (equal dates
\* included), and then nothing else happens in the run: no fetch, no shares
\* lookup, no table.
C1_DateValidation ==
    pc # "start" =>
        /\ Shown(DateError) <=> start_date >= end_date
        /\ start_date >= end_date =>
              /\ pc = "done"
              /\ out = <<DateError>>
              /\ fetch_calls = 0
              /\ lookups = <<>>
              /\ TablesShown = {}

C1_Witness == pc = "done" /\ start_date = end_date /\ out = <<DateError>>

\* C2: with an empty raw text and valid dates the normalizer yields an empty
\* list and the run ends with the "Please enter stock symbols" notice, without
\* a fetch and without an error.
C2_EmptyInputNotice ==
    (stocks_input = <<>> /\ start_date < end_date /\ pc # "start") =>
        /\ stocks = <<>>
        /\ pc = "done"
        /\ out = <<EnterSymbols>>
        /\ fetch_calls = 0

\* descending / ascending by Total
SortedBy(recs, ascending) ==
    \A i \in 1..(Len(recs) - 1) :
        IF ascending THEN recs[i].Total <= recs[i + 1].Total
        ELSE recs[i].Total >= recs[i + 1].Total

\* recs holds len records of all, none twice, and every record left out is no
\* better than the last one kept
TopOf(recs, all, ascending) ==
    /\ SortedBy(recs, ascending)
    /\ \A i \in DOMAIN recs : \E n \in DOMAIN all : all[n] = recs[i]
    /\ \A i, j \in DOMAIN recs : i # j => recs[i].Stock # recs[j].Stock
    /\ \A n \in DOMAIN all :
          (\A i \in DOMAIN recs : recs[i] # all[n]) =>
              \A i \in DOMAIN recs :
                  IF ascending THEN recs[i].Total <= all[n].Total
                  ELSE recs[i].Total >= all[n].Total

\* C3 as stated: both leaderboards are sorted and hold min(5, number of
\* entries of the normalized list) records.
C3_LengthByListLength ==
    ResultsShown =>
        /\ SortedBy(top_gainers, FALSE)
        /\ SortedBy(top_losers, TRUE)
        /\ Len(top_gainers) = Min2(5, Len(stocks))
        /\ Len(top_losers) = Min2(5, Len(stocks))

\* C3 amended: in a run that reaches aggregation the gainers are sorted
\* descending and the losers ascending by total change, each holds
\* min(5, number of DISTINCT symbols of the normalized list) records, and they
\* are the best and the worst of the mover records.
C3_TopMovers ==
    ResultsShown =>
        /\ TopOf(top_gainers, top_movers_data, FALSE)
        /\ TopOf(top_losers, top_movers_data, TRUE)
        /\ Len(top_gainers) = Min2(5, Cardinality(Range(stocks)))
        /\ Len(top_losers) = Min2(5, Cardinality(Range(stocks)))

C3_Witness ==
    /\ ResultsShown
    /\ Len(stocks) = 7
    /\ Len(top_movers_data) = 6
    /\ Len(top_gainers) = 5
    /\ top_gainers[1].Total > top_gainers[5].Total
    /\ top_losers[1].Total < top_losers[5].Total

\* C4: whatever the lookup does, the share count a market cap is computed
\* with is a positive integer (checked on the counts of the stored tables).
C4_SharesAlwaysPositive ==
    \A i \in DOMAIN lookups : Stored(i) => UsedShares(i) > 0

\* how an exception reached the outer handler
FetchRaised == idx = 0 /\ fetch_calls = 1
ExtractFailed ==
    /\ idx \in DOMAIN stocks
    /\ Len(lookups) = idx - 1
    /\ \/ ExtractRaises(data, stocks, stocks[idx])
       \/ FallbackRaises(Source(stocks[idx]))
NullShares ==
    /\ idx \in DOMAIN lookups
    /\ Len(lookups) = idx
    /\ ~lookups[idx].raised
    /\ lookups[idx].value = None

\* C5: a failed shares lookup stays with its symbol.  Each failure emits
\* exactly one notice naming the symbol; the symbol's market cap is computed
\* with 1,000,000,000 and every other symbol's with its own looked-up count;
\* the generic error is never the consequence of a failed lookup; and a run
\* that met no other exception ends with the full result set, every symbol
\* of the list having been looked up.
C5_LookupFailureIsolated ==
    /\ \A i \in DOMAIN lookups : lookups[i].stock = stocks[i]
    /\ \A s \in Range(stocks) :
          CountOf(out, SharesNotice(s))
              = Cardinality({i \in DOMAIN lookups : lookups[i].raised /\ stocks[i] = s})
    /\ \A i \in DOMAIN lookups :
          LastStored(i) =>
              LET v == Entry(stocks[i])
              IN  v["Market Cap"] =
                     [t \in DOMAIN v["Adj Close"] |->
                         IF IsNum(v["Adj Close"][t])
                         THEN Num(Val(v["Adj Close"][t]) * UsedShares(i))
                         ELSE NaN]
    /\ Shown(GenericError) => FetchRaised \/ ExtractFailed \/ NullShares
    /\ (pc = "done" /\ lookups # <<>> /\ ~Shown(GenericError)) =>
          ResultsShown /\ Len(lookups) = Len(stocks)

C5_Witness ==
    /\ pc = "done"
    /\ ResultsShown
    /\ \E i, j \in DOMAIN lookups :
          /\ stocks[i] # stocks[j]
          /\ lookups[i].raised
          /\ ~lookups[j].raised
          /\ Entry(stocks[i])["Market Cap"] # Entry(stocks[j])["Market Cap"]
          /\ CountOf(out, SharesNotice(stocks[i])) = 1
          /\ CountOf(out, SharesNotice(stocks[j])) = 0

\* the four ways a run ends
DateOutcome == out = <<DateError>>
EmptyOutcome == out = <<EmptyWarning>>
IsNotice(x) == x.kind = "warning" /\ x # EmptyWarning /\ x # EnterSymbols
ErrorOutcome ==
    /\ out # <<>>
    /\ out[Len(out)] = GenericError
    /\ \A i \in 1..(Len(out) - 1) : IsNotice(out[i])
\* notices, then a change table per stored symbol, then gainers, then losers
ResultOutcome ==
    \E k \in 0..Len(out) :
        LET n == Len(stock_data)
            b == SubSeq(out, k + 1, Len(out))
        IN  /\ \A i \in 1..k : IsNotice(out[i])
            /\ n >= 1
            /\ Len(b) = 2 * n + 6
            /\ b[1].kind = "header"
            /\ \A m \in 1..n :
                  /\ b[2 * m].kind = "subheader"
                  /\ b[2 * m].stock = stock_data[m].key
                  /\ b[2 * m + 1].kind = "dataframe"
                  /\ b[2 * m + 1].stock = stock_data[m].key
                  /\ b[2 * m + 1].body = stock_data[m].val["Market Cap Change"]
            /\ b[2 * n + 2].kind = "header"
            /\ b[2 * n + 3].kind = "subheader"
            /\ b[2 * n + 4] = MoversTable("Top Gainers", top_gainers)
            /\ b[2 * n + 5].kind = "subheader"
            /\ b[2 * n + 6] = MoversTable("Top Losers", top_losers)

Truth(b) == IF b THEN 1 ELSE 0

\* C6: a finished run shows exactly one outcome: the date error, the empty
\* result warning, the one generic error, or the full result set; a table is
\* never shown together with an error or the empty-result warning; an empty
\* fetch result ends the run with the warning alone and no shares lookup.
C6_OneOutcome ==
    /\ pc = "done" =>
          Truth(DateOutcome) + Truth(EmptyOutcome) + Truth(ErrorOutcome)
              + Truth(ResultOutcome) = 1
    /\ TablesShown # {} =>
          /\ ~Shown(GenericError)
          /\ ~Shown(DateError)
          /\ ~Shown(EmptyWarning)
          /\ pc = "done"
    /\ CountOf(out, GenericError) <= 1
    /\ (data.shape # "unset" /\ IsEmpty(data)) =>
          pc = "done" /\ EmptyOutcome /\ lookups = <<>>

C6_Witness ==
    /\ pc = "done"
    /\ ErrorOutcome
    /\ Len(lookups) >= 1
    /\ stock_data # <<>>
    /\ TablesShown = {}

ShareCounts == {DefaultShares} \cup {Val(v) : v \in SharesOf(world) \ {None}}

RECURSIVE SumOver(_, _)
SumOver(series, S) ==
    IF S = {} THEN 0
    ELSE LET t == CHOOSE t \in S : TRUE
         IN  (IF IsNum(series[t]) THEN Val(series[t]) ELSE 0)
                 + SumOver(series, S \ {t})

\* C7: in every stored table MarketCap[t] = price[t] * shareCount with one
\* share count for all t, MarketCapChange[t] = MarketCap[t] - MarketCap[t-1]
\* for t > 1, the first change is absent and not zero, and the total of a
\* mover record is the sum of the changes with the absent ones counted as 0.
C7_MarketCapSeries ==
    /\ \A n \in DOMAIN stock_data :
          LET v == stock_data[n].val
              price == v["Adj Close"]
              cap == v["Market Cap"]
              change == v["Market Cap Change"]
          IN  /\ Len(cap) = Len(price) /\ Len(change) = Len(price)
              /\ \E s \in ShareCounts :
                    \A t \in DOMAIN price :
                        IF IsNum(price[t])
                        THEN cap[t] = Num(Val(price[t]) * s)
                        ELSE cap[t] = NaN
              /\ change[1] = NaN
              /\ change[1] # Num(0)
              /\ \A t \in 2..Len(cap) :
                    IF IsNum(cap[t]) /\ IsNum(cap[t - 1])
                    THEN change[t] = Num(Val(cap[t]) - Val(cap[t - 1]))
                    ELSE change[t] = NaN
    /\ ResultsShown =>
          /\ Len(top_movers_data) = Len(stock_data)
          /\ \A n \in DOMAIN stock_data :
                LET change == stock_data[n].val["Market Cap Change"]
                IN  /\ top_movers_data[n].Stock = stock_data[n].key
                    /\ top_movers_data[n].Total = SumOver(change, 2..Len(change))

C7_Witness ==
    /\ ResultsShown
    /\ \E n \in DOMAIN stock_data :
          LET v == stock_data[n].val
          IN  /\ v["Adj Close"] = <<Num(1), Num(2), NaN>>
              /\ v["Market Cap"] = <<Num(DefaultShares), Num(2 * DefaultShares), NaN>>
              /\ v["Market Cap Change"] = <<NaN, Num(DefaultShares), NaN>>
              /\ top_movers_data[n].Total = DefaultShares

\* C8: each time the resolver handles a symbol whose table has Close but no
\* Adj Close, the effective price is Close at every date and one fallback
\* notice naming the symbol is emitted; for a symbol whose table has Adj Close
\* the table is left as it is and no fallback notice names the symbol.
C8_PriceFieldResolver ==
    /\ pc = "shares" =>
          LET s == stocks[idx]
              src == Source(s)
          IN  IF "Adj Close" \notin DOMAIN src
              THEN /\ stock_df["Adj Close"] = src["Close"]
                   /\ stock_df["Close"] = src["Close"]
                   /\ CountOf(out, FallbackNotice(s))
                         = Cardinality(Occurrences(SubSeq(stocks, 1, idx), s))
              ELSE /\ stock_df = src
                   /\ CountOf(out, FallbackNotice(s)) = 0
    /\ \A n \in DOMAIN stock_data :
          LET src == Source(stock_data[n].key)
          IN  stock_data[n].val["Adj Close"] =
                 IF "Adj Close" \in DOMAIN src THEN src["Adj Close"] ELSE src["Close"]
    /\ ResultsShown =>
          \A s \in Range(stocks) :
              CountOf(out, FallbackNotice(s)) =
                 IF "Adj Close" \in DOMAIN Source(s) THEN 0
                 ELSE Cardinality(Occurrences(stocks, s))

C8_Witness ==
    /\ ResultsShown
    /\ \E s, u \in Range(stocks) :
          /\ "Adj Close" \notin DOMAIN Source(s)
          /\ Entry(s)["Adj Close"] = Source(s)["Close"]
          /\ CountOf(out, FallbackNotice(s)) = 1
          /\ "Adj Close" \in DOMAIN Source(u)
          /\ Source(u)["Adj Close"] # Source(u)["Close"]
          /\ Entry(u)["Adj Close"] = Source(u)["Adj Close"]
          /\ CountOf(out, FallbackNotice(u)) = 0

\* positions of the commas of the raw text, and its i-th comma-separated piece
Commas(raw) == {k \in DOMAIN raw : raw[k] = ","}
CommaAt(raw, i) ==
    IF i = 0 THEN 0
    ELSE IF i > Cardinality(Commas(raw)) THEN Len(raw) + 1
    ELSE CHOOSE p \in Commas(raw) :
             Cardinality({q \in Commas(raw) : q < p}) = i - 1
Piece(raw, i) == SubSeq(raw, CommaAt(raw, i - 1) + 1, CommaAt(raw, i) - 1)

\* the bounds <<lo, hi>> that cut the leading and trailing whitespace off seg
TrimBounds(seg) ==
    {b \in (1..(Len(seg) + 1)) \X (0..Len(seg)) :
        /\ b[1] <= b[2] + 1
        /\ \A j \in 1..(b[1] - 1) : seg[j] \in Whitespace
        /\ \A j \in (b[2] + 1)..Len(seg) : seg[j] \in Whitespace
        /\ b[1] <= b[2] => seg[b[1]] \notin Whitespace /\ seg[b[2]] \notin Whitespace}

\* u is t with every lowercase letter replaced by its capital
IsUpperOf(u, t) ==
    /\ Len(u) = Len(t)
    /\ \A j \in DOMAIN t :
          /\ \A k \in DOMAIN LowerCase : t[j] = LowerCase[k] => u[j] = UpperCase[k]
          /\ t[j] \notin Range(LowerCase) => u[j] = t[j]

\* C9: the normalized list has one entry per comma-separated piece of the
\* raw text (number of commas + 1), the i-th entry is the i-th piece trimmed
\* and uppercased, in order, repeated symbols kept.
C9_Normalizer ==
    pc # "start" =>
        /\ Len(stocks) = Cardinality(Commas(stocks_input)) + 1
        /\ \A i \in DOMAIN stocks :
              LET seg == Piece(stocks_input, i)
              IN  \E b \in TrimBounds(seg) :
                      IsUpperOf(stocks[i], SubSeq(seg, b[1], b[2]))

C9_Witness ==
    /\ pc # "start"
    /\ stocks_input = <<" ", "a", ",", "a">>
    /\ stocks = <<(<<"A">>), (<<"A">>)>>

\* C10 as stated: with a repeated symbol in the list there are as many mover
\* records and change tables as list entries.
C10_RecordPerOccurrence ==
    ResultsShown =>
        /\ Len(top_movers_data) = Len(stocks)
        /\ Cardinality({i \in TablesShown : out[i].text = "Market Cap Change"})
              = Len(stocks)

\* C10 amended: every occurrence of a repeated symbol is processed on its own
\* (its own shares lookup, in list order), but the tables are kept per symbol:
\* a later occurrence replaces the earlier one's table in place, so there are
\* as many mover records and change tables as DISTINCT symbols, in order of
\* first occurrence, each computed from the symbol's last occurrence.
C10_RecordPerSymbol ==
    ResultsShown =>
        /\ Len(lookups) = Len(stocks)
        /\ \A i \in DOMAIN lookups : lookups[i].stock = stocks[i]
        /\ Len(top_movers_data) = Cardinality(Range(stocks))
        /\ Cardinality({i \in TablesShown : out[i].text = "Market Cap Change"})
              = Cardinality(Range(stocks))
        /\ \A n \in DOMAIN top_movers_data :
              LET first == CHOOSE i \in DOMAIN stocks :
                               /\ stocks[i] = top_movers_data[n].Stock
                               /\ \A j \in 1..(i - 1) : stocks[j] # stocks[i]
                  last == CHOOSE i \in DOMAIN stocks :
                               /\ stocks[i] = top_movers_data[n].Stock
                               /\ \A j \in (i + 1)..Len(stocks) : stocks[j] # stocks[i]
                  price == Source(stocks[last])["Close"]
              IN  /\ n = Cardinality({stocks[j] : j \in 1..first})
                  /\ "Adj Close" \notin DOMAIN Source(stocks[last]) =>
                        top_movers_data[n].Total =
                            SumOver([t \in DOMAIN price |->
                                        IF t > 1 /\ IsNum(price[t]) /\ IsNum(price[t - 1])
                                        THEN Num((Val(price[t]) - Val(price[t - 1]))
                                                     * UsedShares(last))
                                        ELSE NaN],
                                    DOMAIN price)

C10_Witness ==
    /\ ResultsShown
    /\ Len(stocks) = 3
    /\ stocks[1] = stocks[3]
    /\ stocks[1] # stocks[2]
    /\ lookups[1].raised
    /\ ~lookups[3].raised
    /\ Len(top_movers_data) = 2
    /\ top_movers_data[1].Stock = stocks[1]
    /\ top_movers_data[1].Total \in {2 - 4, 4 - 2}

====
